---------------------------- MODULE Spec2Model ----------------------------
(***************************************************************************)
(* A model of sha256.py: the incremental prime sieve, the derivation of    *)
(* the IV and K tables with 28-digit decimal arithmetic, the bitwise       *)
(* primitives on Python's unbounded integers, message preprocessing and    *)
(* the sha256 driver with its 64 compression rounds per block.             *)
(*                                                                         *)
(* Representation.  TLC's integers are 32-bit signed, so a Python integer  *)
(* that takes part in bitwise operations is modelled as the set of the     *)
(* positions of its 1 bits (bit 0 is the least significant): 5 is {0, 2},  *)
(* 2^32 is {32}.  Python integers are unbounded, and so are these sets:    *)
(* nothing is truncated to 32 bits unless the code does it with % 2**32.   *)
(* A decimal.Decimal coefficient is a natural number held as a sequence of *)
(* base-10^5 limbs, least significant first.  A bytes object is a sequence *)
(* of integers in 0..255.                                                  *)
(***************************************************************************)
EXTENDS Integers, Sequences, FiniteSets, TLC

VARIABLES
  pc,        \* where the program is: importing the module, idle, inside sha256
  d,         \* primes(): the sieve's dict, composite -> list of its prime factors
  q,         \* primes(): the candidate
  yielded,   \* the values the running primes() generator has yielded so far
  IV,        \* module-level table IV (line 104), built during import
  K,         \* module-level table K (line 109), built during import
  msg,       \* the argument m of sha256 or of preprocess_message
  blocks,    \* sha256: the list preprocess_message returned, iterated as w
  bi,        \* sha256: the position of the outer for loop in blocks (1-based)
  H,         \* sha256: the State
  wv,        \* sha256: the working variables <<a, b, c, d, e, f, g, h>>
  t,         \* sha256: the round counter of the inner for loop
  digest,    \* sha256: the value returned
  hist,      \* what sha256 has returned so far: the set of <<message, digest>>
  args,      \* the arguments of the last primitive applied on its own
  res        \* the result of the last primitive applied on its own, or the
             \* padded bytes of preprocess_message run on its own

vars == <<pc, d, q, yielded, IV, K, msg, blocks, bi, H, wv, t, digest, hist, args, res>>

(***************************************************************************)
(* Python integers as bit sets.                                            *)
(***************************************************************************)

\* 2**n for 0 <= n <= 30, as a TLC integer.
Pow2Table ==
  <<1, 2, 4, 8, 16, 32, 64, 128, 256, 512, 1024, 2048, 4096, 8192, 16384, 32768, 65536,
    131072, 262144, 524288, 1048576, 2097152, 4194304, 8388608, 16777216, 33554432,
    67108864, 134217728, 268435456, 536870912, 1073741824>>

Pow2(n) == Pow2Table[n + 1]

\* The bit set of a small natural number (below 2^31).
FromInt(n) == {i \in 0 .. 30 : (n \div Pow2(i)) % 2 = 1}

\* The largest bit position of x (-1 for zero).
MaxBit(x) == IF x = {} THEN -1 ELSE CHOOSE m \in x : \A k \in x : k <= m

\* x >> n and x << n on unbounded integers.
ShiftRight(x, n) == {i - n : i \in {j \in x : j >= n}}
ShiftLeft(x, n) == {i + n : i \in x}

\* x | y, x & y, x ^ y for non-negative x and y.
BitOr(x, y) == x \cup y
BitAnd(x, y) == x \cap y
BitXor(x, y) == (x \ y) \cup (y \ x)

\* ~x & z: ~x is the negative integer -x-1, whose two's complement has a 1
\* exactly where x has a 0, so the conjunction keeps the bits of z not in x.
NotAnd(x, z) == z \ x

\* The value of bits 8k .. 8k+7 of x, and of bits 16j .. 16j+15.
ByteAt(x, k) ==
  LET B(i) == IF (8 * k + i) \in x THEN Pow2(i) ELSE 0
  IN B(0) + B(1) + B(2) + B(3) + B(4) + B(5) + B(6) + B(7)

Chunk(x, j) == ByteAt(x, 2 * j) + 256 * ByteAt(x, 2 * j + 1)

\* The bits of v (below 2^17), placed from bit 16j upwards.
ChunkBits(v, j) == {16 * j + i : i \in {k \in 0 .. 16 : (v \div Pow2(k)) % 2 = 1}}

\* x + y on unbounded integers: 16 bits at a time with the carry passed
\* upwards, through the highest chunk either operand uses.
RECURSIVE AddFrom(_, _, _, _, _)
AddFrom(x, y, j, carry, top) ==
  IF j > top THEN ChunkBits(carry, j)
  ELSE LET s == Chunk(x, j) + Chunk(y, j) + carry
       IN ChunkBits(s % 65536, j) \cup AddFrom(x, y, j + 1, s \div 65536, top)

Add(x, y) == AddFrom(x, y, 0, 0, MaxBit(x \cup y) \div 16)

\* x % 2**32.
Mod32(x) == x \cap (0 .. 31)

\* Whether x is a 32-bit word, i.e. lies in [0, 2^32).
IsWord32(x) == x \subseteq (0 .. 31)

(***************************************************************************)
(* bytes <-> int.                                                          *)
(***************************************************************************)

\* int.from_bytes(bs, 'big')
RECURSIVE from_bytes(_)
from_bytes(bs) ==
  IF Len(bs) = 0 THEN {}
  ELSE ShiftLeft(from_bytes(SubSeq(bs, 1, Len(bs) - 1)), 8) \cup FromInt(bs[Len(bs)])

\* x.to_bytes(n, 'big') for a bit set x; Python raises OverflowError when x
\* does not fit in n bytes.
to_bytes(x, n) ==
  IF \E i \in x : i >= 8 * n THEN "OverflowError"
  ELSE [k \in 1 .. n |-> ByteAt(x, n - k)]

\* n.to_bytes(len, 'big') for a small TLC integer n.
RECURSIVE int_to_bytes(_, _)
int_to_bytes(n, len) ==
  IF len = 0 THEN (IF n = 0 THEN <<>> ELSE "OverflowError")
  ELSE LET hi == int_to_bytes(n \div 256, len - 1)
       IN IF hi = "OverflowError" THEN hi ELSE Append(hi, n % 256)

(***************************************************************************)
(* The bitwise primitives, lines 33-65.                                    *)
(***************************************************************************)

rotate_right(x, n) == BitOr(ShiftRight(x, n), ShiftLeft(x, 32 - n))

choose(x, y, z) == BitXor(BitAnd(x, y), NotAnd(x, z))

majority(x, y, z) == BitXor(BitXor(BitAnd(x, y), BitAnd(x, z)), BitAnd(y, z))

Sigma0(x) == BitXor(BitXor(rotate_right(x, 2), rotate_right(x, 13)), rotate_right(x, 22))

\* Sigma1 with the last rotation by 24 instead of 25.
Sigma1_rot24(x) == BitXor(BitXor(rotate_right(x, 6), rotate_right(x, 11)), rotate_right(x, 24))

Sigma1(x) == BitXor(BitXor(rotate_right(x, 6), rotate_right(x, 11)), rotate_right(x, 25))

sigma0(x) == BitXor(BitXor(rotate_right(x, 7), rotate_right(x, 18)), ShiftRight(x, 3))

sigma1(x) == BitXor(BitXor(rotate_right(x, 17), rotate_right(x, 19)), ShiftRight(x, 10))

(***************************************************************************)
(* Natural numbers of any size: base-100000 limbs, least significant       *)
(* first, without leading zero limbs (zero is the empty sequence).  They   *)
(* carry the coefficients of decimal.Decimal values.                       *)
(***************************************************************************)

\* 10**k for 0 <= k <= 5.
Pow10Table == <<1, 10, 100, 1000, 10000, 100000>>

Pow10(k) == Pow10Table[k + 1]

\* A limb holds five decimal digits.
Base == Pow10(5)

\* x without its leading zero limbs.
BigNorm(x) ==
  LET nz == {k \in 1 .. Len(x) : x[k] # 0}
  IN IF nz = {} THEN <<>> ELSE SubSeq(x, 1, CHOOSE k \in nz : \A m \in nz : m <= k)

BigFromInt(n) == BigNorm(<<n % Base, n \div Base>>)

Limb(x, k) == IF k >= 1 /\ k <= Len(x) THEN x[k] ELSE 0

\* a * x + b * y + c * z + carry from limb k upwards, for small naturals
\* a, b, c (a + b + c at most 20000).
RECURSIVE MulAddFrom(_, _, _, _, _, _, _, _)
MulAddFrom(x, a, y, b, z, c, k, carry) ==
  IF k > Len(x) /\ k > Len(y) /\ k > Len(z) /\ carry = 0 THEN <<>>
  ELSE LET v == Limb(x, k) * a + Limb(y, k) * b + Limb(z, k) * c + carry
       IN <<v % Base>> \o MulAddFrom(x, a, y, b, z, c, k + 1, v \div Base)

\* a * x + b * y + c * z + e
BigMulAdd(x, a, y, b, z, c, e) == BigNorm(MulAddFrom(x, a, y, b, z, c, 1, e))

BigAdd(x, y) == BigMulAdd(x, 1, y, 1, <<>>, 0, 0)

BigMulSmall(x, c) == BigMulAdd(x, c, <<>>, 0, <<>>, 0, 0)

\* x - y, for x >= y.
RECURSIVE BigSubFrom(_, _, _, _)
BigSubFrom(x, y, k, borrow) ==
  IF k > Len(x) THEN <<>>
  ELSE LET v == x[k] - Limb(y, k) - borrow
       IN <<v % Base>> \o BigSubFrom(x, y, k + 1, IF v < 0 THEN 1 ELSE 0)

BigSub(x, y) == BigNorm(BigSubFrom(x, y, 1, 0))

\* x <= y: by length, then by the highest limb that differs.
BigLeq(x, y) ==
  IF Len(x) # Len(y) THEN Len(x) < Len(y)
  ELSE LET diff == {k \in 1 .. Len(x) : x[k] # y[k]}
       IN diff = {} \/ LET top == CHOOSE k \in diff : \A m \in diff : m <= k
                       IN x[top] < y[top]

\* divmod(x, 10**k): <<quotient, remainder>>.  Base is a multiple of
\* 10**(k % 5), so the remainder carried into a limb is that of the limb above.
BigDivPow10(x, k) ==
  LET whole == IF k \div 5 < Len(x) THEN k \div 5 ELSE Len(x)
      c == Pow10(k % 5)
      hi == SubSeq(x, whole + 1, Len(x))
      quot == [j \in 1 .. Len(hi) |-> ((Limb(hi, j + 1) % c) * (Base \div c) + hi[j] \div c)]
      low == SubSeq(x, 1, whole) \o (IF k \div 5 < Len(x) THEN <<hi[1] % c>> ELSE <<>>)
  IN <<BigNorm(quot), BigNorm(low)>>

\* x * 10**k
BigMulPow10(x, k) ==
  BigMulSmall([j \in 1 .. Len(x) + k \div 5 |-> IF j <= k \div 5 THEN 0 ELSE x[j - k \div 5]], Pow10(k % 5))

\* 10**k
BigPow10(k) == [j \in 1 .. k \div 5 + 1 |-> IF j = k \div 5 + 1 THEN Pow10(k % 5) ELSE 0]

\* The number of decimal digits of x (0 for zero).
NumDigits(x) ==
  IF Len(x) = 0 THEN 0
  ELSE 5 * (Len(x) - 1) + (CHOOSE n \in 1 .. 5 : Pow10(n - 1) <= x[Len(x)] /\ x[Len(x)] < Pow10(n))

\* divmod(x, 256): <<quotient, remainder>>, from the top limb downwards.
RECURSIVE DivBy256From(_, _)
DivBy256From(x, k) ==
  IF k > Len(x) THEN <<<<>>, 0>>
  ELSE LET hi == DivBy256From(x, k + 1)
           cur == hi[2] * Base + x[k]
       IN <<<<cur \div 256>> \o hi[1], cur % 256>>

\* The Python integer (a bit set) of x, eight bits at a time.
RECURSIVE BigToBits(_, _)
BigToBits(x, j) ==
  IF Len(x) = 0 THEN {}
  ELSE LET qr == DivBy256From(x, 1)
       IN {8 * j + i : i \in FromInt(qr[2])} \cup BigToBits(BigNorm(qr[1]), j + 1)

(***************************************************************************)
(* decimal.Decimal in the default context: a positive value is             *)
(* [coef |-> c, exp |-> e], standing for c * 10^e; results are rounded to  *)
(* 28 significant digits, ROUND_HALF_EVEN.                                 *)
(***************************************************************************)

\* decimal.getcontext().prec, the default.
Prec == 28

\* The context's rounding of an exact result.
DecimalRound(x) ==
  LET nd == NumDigits(x.coef)
  IN IF nd <= Prec THEN x
     ELSE LET qr == BigDivPow10(x.coef, nd - Prec)
              half == BigMulSmall(BigPow10(nd - Prec - 1), 5)
              odd == Len(qr[1]) > 0 /\ qr[1][1] % 2 = 1
              up == IF qr[2] = half THEN odd ELSE BigLeq(half, qr[2])
              c  == IF up THEN BigAdd(qr[1], <<1>>) ELSE qr[1]
          IN IF NumDigits(c) > Prec
             THEN [coef |-> BigDivPow10(c, 1)[1], exp |-> x.exp + (nd - Prec) + 1]
             ELSE [coef |-> c, exp |-> x.exp + (nd - Prec)]

\* floor(radix^k * p^(1/r)) for r in {2, 3}, found one digit at a time.
\* st = <<N, N^2, N^3, T>>: N holds the digits found so far, T is p scaled by
\* radix^r per digit found, and the next digit dg is the largest with
\* (radix * N + dg)^r <= T, where (radix * N + dg)^r is expanded in N, N^2
\* and N^3.
RootPower(st, dg, r, radix) ==
  IF r = 3
  THEN BigMulAdd(st[3], radix * radix * radix, st[2], 3 * radix * radix * dg,
                 st[1], 3 * radix * dg * dg, dg * dg * dg)
  ELSE BigMulAdd(st[2], radix * radix, st[1], 2 * radix * dg, <<>>, 0, dg * dg)

RootExtend(st, dg, r, radix) ==
  << BigMulAdd(st[1], radix, <<>>, 0, <<>>, 0, dg),
     IF r = 3 THEN BigMulAdd(st[2], radix * radix, st[1], 2 * radix * dg, <<>>, 0, dg * dg)
     ELSE RootPower(st, dg, r, radix),
     IF r = 3 THEN RootPower(st, dg, r, radix) ELSE <<>>,
     st[4] >>

RECURSIVE RootDigit(_, _, _, _, _)
RootDigit(st, r, radix, lo, hi) ==
  IF lo = hi THEN RootExtend(st, lo, r, radix)
  ELSE LET mid == (lo + hi + 1) \div 2
       IN IF BigLeq(RootPower(st, mid, r, radix), st[4])
          THEN RootDigit(st, r, radix, mid, hi)
          ELSE RootDigit(st, r, radix, lo, mid - 1)

\* One more digit, and T scaled for the digit after it.  The first digit is
\* the integer part of the root, below 10 for the p and r in use.
RootStep(st, r, radix) ==
  LET nx == RootDigit(st, r, radix, 0, IF Len(st[1]) = 0 THEN 9 ELSE radix - 1)
  IN <<nx[1], nx[2], nx[3], BigMulSmall(nx[4], IF r = 3 THEN radix * radix * radix ELSE radix * radix)>>

\* k more digits, seven at a time.
RECURSIVE RootSteps(_, _, _, _)
RootSteps(st, r, radix, k) ==
  IF k = 0 THEN st
  ELSE LET nx == RootStep(st, r, radix)
       IN IF Len(nx) = 4 THEN RootSteps(nx, r, radix, k - 1) ELSE nx

RECURSIVE RootGroups(_, _, _, _)
RootGroups(st, r, radix, k) ==
  IF k = 0 THEN st
  ELSE LET g == IF k > 7 THEN 7 ELSE k
           nx == RootSteps(st, r, radix, g)
       IN IF Len(nx) = 4 THEN RootGroups(nx, r, radix, k - g) ELSE nx

\* floor(radix^k * p^(1/r))
RootFloor(p, r, radix, k) ==
  RootGroups(<< <<>>, <<>>, <<>>, BigFromInt(p) >>, r, radix, k + 1)[1]

\* Decimal(p) ** (Decimal(1) / r), for the primes p and degrees r of lines
\* 104 and 109 (2 <= p <= 311, r in {2, 3}, so that 1 <= p^(1/r) < 10 and the
\* 28-digit result has exponent -27): the values the library may return for
\* an inexact result, numbered by ulp.  With F = floor(10^27 * p^(1/r)):
\*  - the library's power is computed as exp(y * ln(x)) and is within one
\*    unit in the last place of the exact x^y, so it is one of the two
\*    28-digit neighbours of x^y;
\*  - for r = 2, y = 0.5 exactly, so the result is F or F + 1;
\*  - for r = 3, y = Decimal(1) / 3 = 0.3333333333333333333333333333 is
\*    1/3 - 1/(3 * 10^28), and 10^27 * p^y lies below 10^27 * p^(1/3) by less
\*    than 10^27 * p^(1/3) * ln(p) / (3 * 10^28) < 1.3, so the result is one
\*    of F - 2, F - 1, F, F + 1.
PowerUlps(r) == IF r = 2 THEN 0 .. 1 ELSE -2 .. 1

\* The power under a context of 9 digits: the digits after the ninth are
\* zero.
DecimalPower_prec9(p, r, ulp) ==
  [coef |-> BigMulPow10(BigAdd(RootFloor(p, r, 10, 8), BigFromInt(IF ulp > 0 THEN 1 ELSE 0)), Prec - 9),
   exp |-> 1 - Prec]

DecimalPower(p, r, ulp) ==
  LET F == RootFloor(p, r, 10, Prec - 1)
  IN [coef |-> IF ulp < 0 THEN BigSub(F, BigFromInt(0 - ulp)) ELSE BigAdd(F, BigFromInt(ulp)),
      exp |-> 1 - Prec]

\* x % 1 for a positive Decimal x with a negative exponent: the fractional
\* part, the lowest -exp digits of the coefficient (exact).
DecimalMod1(x) == [coef |-> BigDivPow10(x.coef, 0 - x.exp)[2], exp |-> x.exp]

\* x * 2**32 (2**32 is 256**4): the exact product, rounded by the context.
DecimalMul2To32(x) ==
  DecimalRound([coef |-> BigMulSmall(BigMulSmall(BigMulSmall(BigMulSmall(x.coef, 256), 256), 256), 256),
                exp |-> x.exp])

\* int(x): truncation towards zero, as a Python integer.
DecimalInt(x) ==
  IF x.exp >= 0 THEN BigToBits(BigMulPow10(x.coef, x.exp), 0)
  ELSE BigToBits(BigDivPow10(x.coef, 0 - x.exp)[1], 0)

\* sha_256_constant(p, r), line 31: the integer the expression
\* int(Decimal(p) ** (Decimal(1) / r) % 1 * 2**32) evaluates to when the
\* power is the library's result number ulp.
sha_256_constant(p, r, ulp) ==
  DecimalInt(DecimalMul2To32(DecimalMod1(DecimalPower(p, r, ulp))))

(***************************************************************************)
(* primes(), lines 12-25.  The dict d is a function from the composites    *)
(* scheduled so far to the lists of their prime factors.                   *)
(***************************************************************************)

EmptyDict == [k \in {} |-> <<>>]

\* d[key] = value
DictSet(dd, key, value) == [k \in DOMAIN dd \cup {key} |-> IF k = key THEN value ELSE dd[k]]

\* del d[key]
DictDel(dd, key) == [k \in DOMAIN dd \ {key} |-> dd[k]]

\* d[key] = [p]: the factors already recorded for key are lost.
DictAppend_overwrite(dd, key, p) == DictSet(dd, key, <<p>>)

\* d.setdefault(key, []).append(p)
DictAppend(dd, key, p) ==
  DictSet(dd, key, Append(IF key \in DOMAIN dd THEN dd[key] ELSE <<>>, p))

\* q not in d, lines 19-20: the state of d once q was yielded.
primes_yield(dd, qq) == DictSet(dd, qq * qq, <<qq>>)

\* q in d, lines 22-24: every factor recorded for q moves to its next multiple.
RECURSIVE primes_advance(_, _, _, _)
primes_advance(dd, ps, k, qq) ==
  IF k > Len(ps) THEN dd ELSE primes_advance(DictAppend(dd, ps[k] + qq, ps[k]), ps, k + 1, qq)

primes_sieve(dd, qq) == DictDel(primes_advance(dd, dd[qq], 1, qq), qq)

\* One pass of the while loop of primes(), lines 18-25, on the running
\* generator: the candidate is yielded (and its square scheduled), or the
\* factors recorded for it are moved on.
GenYield ==
  /\ q \notin DOMAIN d
  /\ yielded' = Append(yielded, q)
  /\ d' = primes_yield(d, q)
  /\ q' = q + 1

GenSieve ==
  /\ q \in DOMAIN d
  /\ d' = primes_sieve(d, q)
  /\ q' = q + 1
  /\ UNCHANGED yielded

(***************************************************************************)
(* preprocess_message, lines 67-77.                                        *)
(***************************************************************************)

\* The number of 0x00 bytes line 74 appends to a message of l bytes.
zero_padding(l) == 64 - ((l + 9) % 64)

\* The padded message with the length field in bytes instead of bits.
padded_message_bytes(m) ==
  m \o <<128>> \o [i \in 1 .. zero_padding(Len(m)) |-> 0] \o int_to_bytes(Len(m), 8)

\* The padded message, lines 72-75.
padded_message(m) ==
  m \o <<128>> \o [i \in 1 .. zero_padding(Len(m)) |-> 0] \o int_to_bytes(Len(m) * 8, 8)

\* Word w of block b (both 0-based) of the padded bytes, line 76.
block_word(bs, b, w) == from_bytes(SubSeq(bs, b * 64 + w * 4 + 1, b * 64 + w * 4 + 4))

preprocess_message(m) ==
  LET bs == padded_message(m)
  IN [b \in 1 .. Len(bs) \div 64 |-> [w \in 1 .. 16 |-> block_word(bs, b - 1, w - 1)]]

(***************************************************************************)
(* sha256, lines 79-99, one action per step of its loops.                  *)
(***************************************************************************)

\* The schedule word with sigma0 and sigma1 exchanged.
schedule_word_swapped(w, tt) ==
  Mod32(Add(Add(Add(sigma0(w[tt - 2 + 1]), w[tt - 7 + 1]), sigma1(w[tt - 15 + 1])), w[tt - 16 + 1]))

\* The schedule word appended at round t >= 16, line 87 (w is 0-based in the
\* code, 1-based here).
schedule_word(w, tt) ==
  Mod32(Add(Add(Add(sigma1(w[tt - 2 + 1]), w[tt - 7 + 1]), sigma0(w[tt - 15 + 1])), w[tt - 16 + 1]))

\* The list w once round t has run line 87.
extend_schedule(w, tt) == IF tt >= 16 THEN Append(w, schedule_word(w, tt)) ELSE w

\* Lines 88-97: the working variables after a round with schedule word wt
\* and round constant kt.
round(v, kt, wt) ==
  LET t1 == Mod32(Add(Add(Add(Add(v[8], Sigma1(v[5])), choose(v[5], v[6], v[7])), kt), wt))
      t2 == Mod32(Add(Sigma0(v[1]), majority(v[1], v[2], v[3])))
  IN <<Mod32(Add(t1, t2)), v[1], v[2], v[3], Mod32(Add(v[4], t1)), v[5], v[6], v[7]>>

\* Line 98 without the reduction modulo 2^32.
add_state_unreduced(v, hh) == [i \in 1 .. 8 |-> Add(v[i], hh[i])]

\* Line 98: the State after a block.
add_state(v, hh) == [i \in 1 .. 8 |-> Mod32(Add(v[i], hh[i]))]

\* Line 99: every word must fit in 4 bytes, or to_bytes raises OverflowError.
digest_fits(hh) == \A i \in 1 .. 8 : \A j \in hh[i] : j < 32

join_digest(hh) == [k \in 1 .. 32 |-> to_bytes(hh[((k - 1) \div 4) + 1], 4)[((k - 1) % 4) + 1]]

\* The messages sha256 is called on: b"", b"abc", 55 times b"a", the 56-byte
\* two-block message of FIPS 180-4, and the 64 bytes 0 .. 63.
Messages ==
  << <<>>,
     <<97, 98, 99>>,
     [i \in 1 .. 55 |-> 97],
     <<97, 98, 99, 100, 98, 99, 100, 101, 99, 100, 101, 102, 100, 101, 102, 103,
       101, 102, 103, 104, 102, 103, 104, 105, 103, 104, 105, 106, 104, 105, 106, 107,
       105, 106, 107, 108, 106, 107, 108, 109, 107, 108, 109, 110, 108, 109, 110, 111,
       109, 110, 111, 112, 110, 111, 112, 113>>,
     [i \in 1 .. 64 |-> i - 1] >>

\* A call that goes on from the State the previous call left.
Call_keeps_state ==
  /\ pc \in {"idle", "done"}
  /\ \E i \in 1 .. Len(Messages) :
       /\ msg' = Messages[i]
       /\ blocks' = preprocess_message(Messages[i])
  /\ H' = IF H = <<>> THEN IV ELSE H
  /\ bi' = 1
  /\ wv' = <<>>
  /\ t' = 0
  /\ digest' = <<>>
  /\ pc' = "block"
  /\ UNCHANGED <<d, q, yielded, IV, K, hist, args, res>>

\* Line 82 and the call of preprocess_message of line 83.
Call ==
  /\ pc \in {"idle", "done"}
  /\ \E i \in 1 .. Len(Messages) :
       /\ msg' = Messages[i]
       /\ blocks' = preprocess_message(Messages[i])
  /\ H' = IV
  /\ bi' = 1
  /\ wv' = <<>>
  /\ t' = 0
  /\ digest' = <<>>
  /\ pc' = "block"
  /\ UNCHANGED <<d, q, yielded, IV, K, hist, args, res>>

\* Lines 83-84: the for loop takes the next block.
NextBlock ==
  /\ pc = "block"
  /\ bi <= Len(blocks)
  /\ wv' = H
  /\ t' = 0
  /\ pc' = "round"
  /\ UNCHANGED <<d, q, yielded, IV, K, msg, blocks, bi, H, digest, hist, args, res>>

\* Lines 85-97: one round.  Line 87 appends to the list w, which is the
\* element of the list preprocess_message returned.
Round ==
  /\ pc = "round"
  /\ t < 64
  /\ LET w == extend_schedule(blocks[bi], t)
     IN /\ blocks' = [blocks EXCEPT ![bi] = w]
        /\ wv' = round(wv, K[t + 1], w[t + 1])
  /\ t' = t + 1
  /\ UNCHANGED <<pc, d, q, yielded, IV, K, msg, bi, H, digest, hist, args, res>>

\* Line 98.
EndBlock ==
  /\ pc = "round"
  /\ t = 64
  /\ H' = add_state(wv, H)
  /\ bi' = bi + 1
  /\ pc' = "block"
  /\ UNCHANGED <<d, q, yielded, IV, K, msg, blocks, wv, t, digest, hist, args, res>>

\* Line 99.
Return ==
  /\ pc = "block"
  /\ bi > Len(blocks)
  /\ pc' = IF digest_fits(H) THEN "done" ELSE "OverflowError"
  /\ digest' = IF digest_fits(H) THEN join_digest(H) ELSE <<>>
  /\ hist' = IF digest_fits(H) THEN hist \cup {<<msg, digest'>>} ELSE hist
  /\ UNCHANGED <<d, q, yielded, IV, K, msg, blocks, bi, H, wv, t, args, res>>

(***************************************************************************)
(* Module import, lines 104 and 109: each table is a list comprehension    *)
(* over itertools.islice of a fresh primes() generator.                    *)
(***************************************************************************)

\* The islice counts of lines 104 and 109.
NumIV == 8
NumK == 64

idle_call == <<msg, blocks, bi, H, wv, t, digest, hist, args, res>>

IVYield ==
  /\ pc = "import_IV"
  /\ Len(IV) < NumIV
  /\ GenYield
  /\ \E ulp \in PowerUlps(2) : IV' = Append(IV, sha_256_constant(q, 2, ulp))
  /\ UNCHANGED <<pc, K>>
  /\ UNCHANGED idle_call

IVSieve ==
  /\ pc = "import_IV"
  /\ Len(IV) < NumIV
  /\ GenSieve
  /\ UNCHANGED <<pc, IV, K>>
  /\ UNCHANGED idle_call

\* Line 109 starts: a new generator.
StartK ==
  /\ pc = "import_IV"
  /\ Len(IV) = NumIV
  /\ pc' = "import_K"
  /\ d' = EmptyDict
  /\ q' = 2
  /\ yielded' = <<>>
  /\ UNCHANGED <<IV, K>>
  /\ UNCHANGED idle_call

KYield ==
  /\ pc = "import_K"
  /\ Len(K) < NumK
  /\ GenYield
  /\ \E ulp \in PowerUlps(3) : K' = Append(K, sha_256_constant(q, 3, ulp))
  /\ UNCHANGED <<pc, IV>>
  /\ UNCHANGED idle_call

KSieve ==
  /\ pc = "import_K"
  /\ Len(K) < NumK
  /\ GenSieve
  /\ UNCHANGED <<pc, IV, K>>
  /\ UNCHANGED idle_call

\* The module is imported; the generator of line 109 is dropped.
ImportDone ==
  /\ pc = "import_K"
  /\ Len(K) = NumK
  /\ pc' = "idle"
  /\ UNCHANGED <<d, q, yielded, IV, K>>
  /\ UNCHANGED idle_call

Init ==
  /\ pc = "import_IV"
  /\ d = EmptyDict
  /\ q = 2
  /\ yielded = <<>>
  /\ IV = <<>>
  /\ K = <<>>
  /\ msg = <<>>
  /\ blocks = <<>>
  /\ bi = 0
  /\ H = <<>>
  /\ wv = <<>>
  /\ t = 0
  /\ digest = <<>>
  /\ hist = {}
  /\ args = <<>>
  /\ res = <<>>

Next ==
  \/ IVYield
  \/ IVSieve
  \/ StartK
  \/ KYield
  \/ KSieve
  \/ ImportDone
  \/ Call
  \/ NextBlock
  \/ Round
  \/ EndBlock
  \/ Return

Spec == Init /\ [][Next]_vars

(***************************************************************************)
(* primes() on its own: a generator runs for as long as it is asked to,    *)
(* and a fresh one may be started at any time.                             *)
(***************************************************************************)

\* The largest candidate a generator is run to.
MaxQ == 400

InitPrimes ==
  /\ pc = "primes"
  /\ d = EmptyDict
  /\ q = 2
  /\ yielded = <<>>
  /\ IV = <<>>
  /\ K = <<>>
  /\ msg = <<>>
  /\ blocks = <<>>
  /\ bi = 0
  /\ H = <<>>
  /\ wv = <<>>
  /\ t = 0
  /\ digest = <<>>
  /\ hist = {}
  /\ args = <<>>
  /\ res = <<>>

PrimesYield ==
  /\ pc = "primes"
  /\ q <= MaxQ
  /\ GenYield
  /\ UNCHANGED <<pc, IV, K>>
  /\ UNCHANGED idle_call

PrimesSieve ==
  /\ pc = "primes"
  /\ q <= MaxQ
  /\ GenSieve
  /\ UNCHANGED <<pc, IV, K>>
  /\ UNCHANGED idle_call

\* primes() is called again: a new generator replaces the running one.
PrimesRestart ==
  /\ pc = "primes"
  /\ q > 2
  /\ d' = EmptyDict
  /\ q' = 2
  /\ yielded' = <<>>
  /\ UNCHANGED <<pc, IV, K>>
  /\ UNCHANGED idle_call

NextPrimes ==
  \/ PrimesYield
  \/ PrimesSieve
  \/ PrimesRestart

SpecPrimes == InitPrimes /\ [][NextPrimes]_vars

(***************************************************************************)
(* preprocess_message on its own, on one message of every length up to     *)
(* MaxLen.                                                                 *)
(***************************************************************************)

\* The longest message preprocessed.
MaxLen == 130

\* The message of l bytes: byte i (1-based) is (37 i + 11) mod 256.
TestMessage(l) == [i \in 1 .. l |-> (37 * i + 11) % 256]

InitPad ==
  /\ pc = "pad"
  /\ \E l \in 0 .. MaxLen : msg = TestMessage(l)
  /\ d = EmptyDict
  /\ q = 0
  /\ yielded = <<>>
  /\ IV = <<>>
  /\ K = <<>>
  /\ blocks = <<>>
  /\ bi = 0
  /\ H = <<>>
  /\ wv = <<>>
  /\ t = 0
  /\ digest = <<>>
  /\ hist = {}
  /\ args = <<>>
  /\ res = <<>>

\* preprocess_message(msg) runs: res keeps the padded bytes of line 75,
\* blocks the list returned.
Preprocess ==
  /\ pc = "pad"
  /\ res' = padded_message(msg)
  /\ blocks' = preprocess_message(msg)
  /\ pc' = "padded"
  /\ UNCHANGED <<d, q, yielded, IV, K, msg, bi, H, wv, t, digest, hist, args>>

NextPad == Preprocess

SpecPad == InitPad /\ [][NextPad]_vars

(***************************************************************************)
(* The bitwise primitives on their own, on sample 32-bit words.            *)
(***************************************************************************)

\* The word with the 16-bit halves hi and lo.
Word(hi, lo) == ShiftLeft(FromInt(hi), 16) \cup FromInt(lo)

\* 0, 1, 4, 2^31, 2^32 - 1 and IV[0] of FIPS 180-4.
SampleWords == {{}, {0}, {2}, {31}, 0 .. 31, Word(\H6a09, \He667)}

\* The rotation amounts lines 51-65 use.
RotateAmounts == {2, 6, 7, 11, 13, 17, 18, 19, 22, 25}

InitBits ==
  /\ pc = "bits"
  /\ args \in SampleWords \X SampleWords \X SampleWords
  /\ res = <<>>
  /\ d = EmptyDict
  /\ q = 0
  /\ yielded = <<>>
  /\ IV = <<>>
  /\ K = <<>>
  /\ msg = <<>>
  /\ blocks = <<>>
  /\ bi = 0
  /\ H = <<>>
  /\ wv = <<>>
  /\ t = 0
  /\ digest = <<>>
  /\ hist = {}

bits_frame == <<pc, d, q, yielded, IV, K, msg, blocks, bi, H, wv, t, digest, hist, args>>

ApplyRotate ==
  /\ pc = "bits"
  /\ \E n \in RotateAmounts : res' = <<"rotate_right", n, rotate_right(args[1], n)>>
  /\ UNCHANGED bits_frame

ApplyChoose ==
  /\ pc = "bits"
  /\ res' = <<"choose", 0, choose(args[1], args[2], args[3])>>
  /\ UNCHANGED bits_frame

ApplyMajority ==
  /\ pc = "bits"
  /\ res' = <<"majority", 0, majority(args[1], args[2], args[3])>>
  /\ UNCHANGED bits_frame

ApplySigma ==
  /\ pc = "bits"
  /\ \/ res' = <<"Sigma0", 0, Sigma0(args[1])>>
     \/ res' = <<"Sigma1", 0, Sigma1(args[1])>>
     \/ res' = <<"sigma0", 0, sigma0(args[1])>>
     \/ res' = <<"sigma1", 0, sigma1(args[1])>>
  /\ UNCHANGED bits_frame

NextBits ==
  \/ ApplyRotate
  \/ ApplyChoose
  \/ ApplyMajority
  \/ ApplySigma

SpecBits == InitBits /\ [][NextBits]_vars

(***************************************************************************)
(* Reference values: the tables and test vectors FIPS 180-4 publishes, and *)
(* the digests of the boundary messages as a reference SHA-256 gives them. *)
(***************************************************************************)

\* The table of FIPS 180-4 section 5.3.3, each word as its two 16-bit halves.
FipsIVHalves ==
  << <<\H6a09, \He667>>, <<\Hbb67, \Hae85>>, <<\H3c6e, \Hf372>>, <<\Ha54f, \Hf53a>>,
     <<\H510e, \H527f>>, <<\H9b05, \H688c>>, <<\H1f83, \Hd9ab>>, <<\H5be0, \Hcd19>> >>

\* The table of FIPS 180-4 section 4.2.2.
FipsKHalves ==
  << <<\H428a, \H2f98>>, <<\H7137, \H4491>>, <<\Hb5c0, \Hfbcf>>, <<\He9b5, \Hdba5>>,
     <<\H3956, \Hc25b>>, <<\H59f1, \H11f1>>, <<\H923f, \H82a4>>, <<\Hab1c, \H5ed5>>,
     <<\Hd807, \Haa98>>, <<\H1283, \H5b01>>, <<\H2431, \H85be>>, <<\H550c, \H7dc3>>,
     <<\H72be, \H5d74>>, <<\H80de, \Hb1fe>>, <<\H9bdc, \H06a7>>, <<\Hc19b, \Hf174>>,
     <<\He49b, \H69c1>>, <<\Hefbe, \H4786>>, <<\H0fc1, \H9dc6>>, <<\H240c, \Ha1cc>>,
     <<\H2de9, \H2c6f>>, <<\H4a74, \H84aa>>, <<\H5cb0, \Ha9dc>>, <<\H76f9, \H88da>>,
     <<\H983e, \H5152>>, <<\Ha831, \Hc66d>>, <<\Hb003, \H27c8>>, <<\Hbf59, \H7fc7>>,
     <<\Hc6e0, \H0bf3>>, <<\Hd5a7, \H9147>>, <<\H06ca, \H6351>>, <<\H1429, \H2967>>,
     <<\H27b7, \H0a85>>, <<\H2e1b, \H2138>>, <<\H4d2c, \H6dfc>>, <<\H5338, \H0d13>>,
     <<\H650a, \H7354>>, <<\H766a, \H0abb>>, <<\H81c2, \Hc92e>>, <<\H9272, \H2c85>>,
     <<\Ha2bf, \He8a1>>, <<\Ha81a, \H664b>>, <<\Hc24b, \H8b70>>, <<\Hc76c, \H51a3>>,
     <<\Hd192, \He819>>, <<\Hd699, \H0624>>, <<\Hf40e, \H3585>>, <<\H106a, \Ha070>>,
     <<\H19a4, \Hc116>>, <<\H1e37, \H6c08>>, <<\H2748, \H774c>>, <<\H34b0, \Hbcb5>>,
     <<\H391c, \H0cb3>>, <<\H4ed8, \Haa4a>>, <<\H5b9c, \Hca4f>>, <<\H682e, \H6ff3>>,
     <<\H748f, \H82ee>>, <<\H78a5, \H636f>>, <<\H84c8, \H7814>>, <<\H8cc7, \H0208>>,
     <<\H90be, \Hfffa>>, <<\Ha450, \H6ceb>>, <<\Hbef9, \Ha3f7>>, <<\Hc671, \H78f2>> >>

FipsIV == [i \in 1 .. Len(FipsIVHalves) |-> Word(FipsIVHalves[i][1], FipsIVHalves[i][2])]

FipsK == [i \in 1 .. Len(FipsKHalves) |-> Word(FipsKHalves[i][1], FipsKHalves[i][2])]

\* SHA-256 of b"": e3b0c442 ... 7852b855.
DigestEmpty ==
  <<\He3, \Hb0, \Hc4, \H42, \H98, \Hfc, \H1c, \H14, \H9a, \Hfb, \Hf4, \Hc8, \H99, \H6f, \Hb9, \H24,
    \H27, \Hae, \H41, \He4, \H64, \H9b, \H93, \H4c, \Ha4, \H95, \H99, \H1b, \H78, \H52, \Hb8, \H55>>

\* SHA-256 of b"abc": ba7816bf ... f20015ad.
DigestAbc ==
  <<\Hba, \H78, \H16, \Hbf, \H8f, \H01, \Hcf, \Hea, \H41, \H41, \H40, \Hde, \H5d, \Hae, \H22, \H23,
    \Hb0, \H03, \H61, \Ha3, \H96, \H17, \H7a, \H9c, \Hb4, \H10, \Hff, \H61, \Hf2, \H00, \H15, \Had>>

\* SHA-256 of 55 times b"a" (one block in FIPS 180-4: 55 + 1 + 8 = 64).
Digest55 ==
  <<\H9f, \H43, \H90, \Hf8, \Hd3, \H0c, \H2d, \Hd9, \H2e, \Hc9, \Hf0, \H95, \Hb6, \H5e, \H2b, \H9a,
    \He9, \Hb0, \Ha9, \H25, \Ha5, \H25, \H8e, \H24, \H1c, \H9f, \H1e, \H91, \H0f, \H73, \H43, \H18>>

\* SHA-256 of the 56-byte message of FIPS 180-4 (two blocks).
Digest56 ==
  <<\H24, \H8d, \H6a, \H61, \Hd2, \H06, \H38, \Hb8, \He5, \Hc0, \H26, \H93, \H0c, \H3e, \H60, \H39,
    \Ha3, \H3c, \He4, \H59, \H64, \Hff, \H21, \H67, \Hf6, \Hec, \Hed, \Hd4, \H19, \Hdb, \H06, \Hc1>>

\* SHA-256 of the 64 bytes 0 .. 63.
Digest64 ==
  <<\Hfd, \Hea, \Hb9, \Hac, \Hf3, \H71, \H03, \H62, \Hbd, \H26, \H58, \Hcd, \Hc9, \Ha2, \H9e, \H8f,
    \H9c, \H75, \H7f, \Hcf, \H98, \H11, \H60, \H3a, \H8c, \H44, \H7c, \Hd1, \Hd9, \H15, \H11, \H08>>

IsPrime(n) == n >= 2 /\ \A k \in 2 .. n - 1 : k * k > n \/ n % k # 0

\* floor(frac(p^(1/r)) * 2^32): the low 32 bits of floor(2^32 * p^(1/r)).
FracRootWord(p, r) == Mod32(BigToBits(RootFloor(p, r, 2, 32), 0))

\* The primes up to 6 * NumK, which is beyond the 64th prime.
TablePrimes == {n \in 2 .. 6 * NumK : IsPrime(n)}

\* The i-th prime, i <= NumK.
NthPrime(i) == CHOOSE p \in TablePrimes : Cardinality({n \in TablePrimes : n <= p}) = i

\* The 32-bit right rotation of FIPS 180-4 section 3.2.
ROTR(x, n) == {(i + 32 - n) % 32 : i \in x}

SHR(x, n) == {i - n : i \in {j \in x : j >= n}}

\* sigma0 and sigma1 of FIPS 180-4 equations (4.6) and (4.7).
FipsSigma0(x) == BitXor(BitXor(ROTR(x, 7), ROTR(x, 18)), SHR(x, 3))

FipsSigma1(x) == BitXor(BitXor(ROTR(x, 17), ROTR(x, 19)), SHR(x, 10))

\* (a + b + c + e) mod 2^32 on 32-bit words, by 16-bit halves.
SumMod32(a, b, c, e) ==
  LET lo == Chunk(a, 0) + Chunk(b, 0) + Chunk(c, 0) + Chunk(e, 0)
      hi == Chunk(a, 1) + Chunk(b, 1) + Chunk(c, 1) + Chunk(e, 1) + (lo \div 65536)
  IN ChunkBits(lo % 65536, 0) \cup ChunkBits(hi % 65536, 1)

InCall == pc \in {"block", "round", "done"}

(***************************************************************************)
(* The claims.                                                             *)
(***************************************************************************)

\* C1: for the messages of 55, 56 and 64 bytes sha256 returns the digest a
\* reference SHA-256 returns (the reference pads 55 bytes into one block, 56
\* bytes is the first length that takes two).
C1_BoundaryDigests ==
  pc = "done" =>
    /\ Len(msg) = 55 => digest = Digest55
    /\ Len(msg) = 56 => digest = Digest56
    /\ Len(msg) = 64 => digest = Digest64

\* C2: sha256(b"") and sha256(b"abc") are the published test vectors.
C2_KnownAnswers ==
  pc = "done" =>
    /\ msg = <<>> => digest = DigestEmpty
    /\ msg = <<97, 98, 99>> => digest = DigestAbc

C2_Witness == pc = "done" /\ msg = <<97, 98, 99>> /\ digest = DigestAbc /\ <<<<>>, DigestEmpty>> \in hist

\* C3: sha256 is stateless across calls: once the module is imported no step
\* changes IV or K, every call starts its State from IV, and a message never
\* gets two different digests, whatever calls came before.
C3_Stateless ==
  [][(pc \in {"idle", "block", "round", "done"}) =>
       (/\ IV' = IV
        /\ K' = K
        /\ (pc' = "block" /\ bi' = 1) => H' = IV
        /\ \A e1 \in hist' : \A e2 \in hist' : e1[1] = e2[1] => e1[2] = e2[2])]_vars

\* A call starts after every message has been hashed before.
C3_Witness ==
  /\ pc = "block"
  /\ bi = 1
  /\ H = IV
  /\ {e[1] : e \in hist} = {Messages[i] : i \in 1 .. Len(Messages)}

\* C4: sha256 returns 32 bytes, the big-endian concatenation of the 8 State
\* words after the last block; every State word after every block and every
\* working variable after every round is in [0, 2^32), so the serialisation
\* never fails.
C4_DigestOfState ==
  /\ pc # "OverflowError"
  /\ InCall => \A i \in 1 .. 8 : IsWord32(H[i])
  /\ pc = "round" => \A i \in 1 .. 8 : IsWord32(wv[i])
  /\ pc = "done" =>
       /\ Len(digest) = 32
       /\ bi = Len(blocks) + 1
       /\ \A i \in 1 .. 8 : \A k \in 1 .. 4 : digest[4 * (i - 1) + k] = ByteAt(H[i], 4 - k)

C4_Witness == pc = "done" /\ Len(digest) = 32 /\ Len(blocks) = 2

\* C5: primes() yields all the primes in increasing order from 2: the n-th
\* value yielded is the n-th prime, none is composite, none is skipped.
C5_PrimesInOrder ==
  pc = "primes" =>
    /\ \A i \in 1 .. Len(yielded) :
         /\ IsPrime(yielded[i])
         /\ Cardinality({n \in 2 .. yielded[i] : IsPrime(n)}) = i
         /\ yielded[i] < q
    /\ \A i \in 1 .. Len(yielded) - 1 : yielded[i] < yielded[i + 1]
    /\ \A n \in 2 .. q - 1 : IsPrime(n) => \E i \in 1 .. Len(yielded) : yielded[i] = n

\* The generator has yielded the 64 primes of line 109.
C5_Witness == pc = "primes" /\ Len(yielded) >= NumK /\ yielded[NumIV] = 19 /\ yielded[NumK] = 311

\* C6: IV[i] = floor(frac(sqrt(p_i)) * 2^32) and K[i] =
\* floor(frac(cbrt(p_i)) * 2^32) for the i-th prime p_i, and both tables are
\* the tables FIPS 180-4 publishes, word for word.
C6_TablesExact ==
  /\ Len(IV) <= NumIV
  /\ Len(K) <= NumK
  /\ \A i \in 1 .. Len(IV) : IV[i] = FipsIV[i]
  /\ \A i \in 1 .. Len(K) : K[i] = FipsK[i]
  /\ pc \notin {"import_IV", "import_K"} => Len(IV) = NumIV /\ Len(K) = NumK
  /\ pc = "idle" =>
       /\ \A i \in 1 .. NumIV : IV[i] = FracRootWord(NthPrime(i), 2)
       /\ \A i \in 1 .. NumK : K[i] = FracRootWord(NthPrime(i), 3)

C6_Witness == pc = "idle" /\ Len(IV) = NumIV /\ Len(K) = NumK /\ K[NumK] = Word(\Hc671, \H78f2)

\* C7: after the 0x80 byte preprocess_message appends the least k >= 0 zero
\* bytes with L + 1 + k congruent to 56 modulo 64 (k = 0 when L mod 64 = 55),
\* so that it produces ceil((L + 9) / 64) blocks.
C7_MinimalPadding ==
  pc = "padded" =>
    LET L == Len(msg)
        k == Len(res) - L - 9
    IN /\ SubSeq(res, 1, L) = msg
       /\ res[L + 1] = 128
       /\ \A i \in L + 2 .. L + 1 + k : res[i] = 0
       /\ k = (64 + 55 - (L % 64)) % 64
       /\ Len(blocks) = (L + 9 + 63) \div 64

\* C8: the padded bytes have a length that is a positive multiple of 64,
\* preprocess_message returns at least one block, every block has exactly 16
\* words in [0, 2^32), and the last two words of the last block hold L * 8
\* as a 64-bit big-endian value.
C8_PaddedBlocks ==
  pc = "padded" =>
    /\ Len(res) > 0
    /\ Len(res) % 64 = 0
    /\ Len(blocks) >= 1
    /\ Len(blocks) = Len(res) \div 64
    /\ \A b \in 1 .. Len(blocks) :
         /\ Len(blocks[b]) = 16
         /\ \A w \in 1 .. 16 : IsWord32(blocks[b][w])
         /\ \A w \in 1 .. 16 : \A j \in 1 .. 4 :
              ByteAt(blocks[b][w], 4 - j) = res[64 * (b - 1) + 4 * (w - 1) + j]
    /\ BitOr(ShiftLeft(blocks[Len(blocks)][15], 32), blocks[Len(blocks)][16]) = FromInt(8 * Len(msg))

\* The empty message, and a message of two full blocks, were preprocessed.
C8_Witness ==
  /\ pc = "padded"
  /\ Len(msg) \in {0, 128}
  /\ Len(blocks) = (IF Len(msg) = 0 THEN 1 ELSE 3)
  /\ blocks[Len(blocks)][16] = FromInt(8 * Len(msg))

\* C9: every bitwise primitive returns a word in [0, 2^32) on words in
\* [0, 2^32) and the rotation amounts used, and rotate_right(x, n) is the
\* 32-bit right rotation of x by n.
C9_PrimitivesAreWords ==
  res # <<>> =>
    /\ IsWord32(res[3])
    /\ res[1] = "rotate_right" => res[3] = ROTR(args[1], res[2])

=============================================================================
